---- MODULE Spec2Model ----
(***************************************************************************)
(* Model of the research agent of src/search_agent: the LangGraph state    *)
(* graph of graph.py (generate_query, web_research, reflection,            *)
(* finalize_answer and the two routing functions), the state channels and  *)
(* their reducers of state.py, and the research endpoint of app.py that    *)
(* invokes the graph and builds the response.                              *)
(*                                                                         *)
(* One run of the graph is executed in supersteps: the tasks of a step run *)
(* concurrently, their writes are applied to the channels when all of them *)
(* have returned, and the run ends when a step schedules no task.          *)
(***************************************************************************)
EXTENDS Integers, Sequences, FiniteSets, TLC

VARIABLES
    pc,        \* position of the run: the node(s) scheduled next, "done" or "failed"
    state,     \* the channels of the graph (OverallState + ReflectionState)
    tasks,     \* the web_research branches of the superstep in flight
    resolver,  \* the source resolver's run-scoped memory
    response,  \* the ResearchResponse returned by research(), NoResponse before
    hist,      \* history of the run (observation only)
    environ,   \* os.environ: the settings the process environment overrides
    suspended  \* the other research request of the process, suspended at an await

vars == <<pc, state, tasks, resolver, response, hist, environ, suspended>>

----------------------------------------------------------------------------
(* Bounds of the model *)

MaxLoops == 3       \* largest max_research_loops supplied or configured
MaxQueries == 2     \* longest query list generate_query returns
MaxAnswerLen == 1   \* longest answer text (in tokens) the answer model writes
MaxTextLen == 3     \* longest response text (in tokens) markers are inserted in
MaxCitations == 2   \* most citations of one marker insertion
MaxClientCalls == 4 \* most calls on the global client that are followed
MaxSwitches == 2    \* most switches between two concurrent requests

Question == "question"

(* Texts the collaborators return.  The query model returns a list of     *)
(* distinct queries, the reflection model a list of distinct follow-up    *)
(* queries, the search a list of grounding chunks (their urls).           *)
QueryTexts == <<"qa", "qb", "qc", "qd">>

Prefixes(s, n) == {SubSeq(s, 1, k) : k \in 0..n}

(* the query lists generate_query may get from the query model *)
QueryLists == Prefixes(QueryTexts, MaxQueries)

(* the follow-up lists a reflection may get from the reasoning model *)
FollowUpLists == {<<>>, <<"fa">>}

(* the grounding chunks (their urls) a search may return: one url, or the  *)
(* same url and a second one, so that branches meet a url a sibling has    *)
(* resolved and urls that are new to the run                               *)
ChunkLists == {<<"u1">>, <<"u1", "u2">>}

(* ResearchRequest.initial_search_query_count default *)
InitialSearchQueryCount == 3

(* Configuration.max_research_loops default *)
DefaultMaxResearchLoops == 2

(* Configuration.number_of_initial_queries default *)
DefaultNumberOfInitialQueries == 3

----------------------------------------------------------------------------
(* Helpers *)

None == <<>>
Some(v) == <<v>>

(* decimal numerals of the small integers, for str -> int and int -> str *)
Digits == <<"0", "1", "2", "3", "4", "5", "6", "7", "8", "9">>
str(k) == Digits[k + 1]
int(s) == (CHOOSE i \in DOMAIN Digits : Digits[i] = s) - 1

RECURSIVE Flatten(_)
Flatten(ss) == IF ss = <<>> THEN <<>> ELSE Head(ss) \o Flatten(Tail(ss))

Range(s) == {s[i] : i \in DOMAIN s}

Max(a, b) == IF a >= b THEN a ELSE b

----------------------------------------------------------------------------
(* Texts.  A text is a sequence of tokens; a token is a word, a short url  *)
(* (the resolver's key of a source) or a long url.                         *)

Word(w) == [kind |-> "word", id |-> 0, idx |-> 0, s |-> w]
ShortUrl(id, idx) == [kind |-> "short", id |-> id, idx |-> idx, s |-> ""]
LongUrl(u) == [kind |-> "long", id |-> 0, idx |-> 0, s |-> u]

HumanMessage(content) == [role |-> "human", content |-> content]
AIMessage(content) == [role |-> "ai", content |-> content]

(* Send("web_research", {"search_query": q, "id": i}) as a scheduled task *)
Send(q, i) == [search_query |-> q, id |-> i, status |-> "pending",
               update |-> None]

NoResponse == [success |-> FALSE, message |-> "none"]

----------------------------------------------------------------------------
(* Configuration (configuration.py) *)

EmptyDict == [k \in {} |-> None]

model_fields ==
    {"query_generator_model", "reflection_model", "answer_model",
     "number_of_initial_queries", "max_research_loops"}

IntFields == {"number_of_initial_queries", "max_research_loops"}

(* the defaults of the fields *)
Defaults ==
    [query_generator_model |-> "gemini-2.5-flash",
     reflection_model |-> "gemini-2.5-flash",
     answer_model |-> "gemini-2.5-pro",
     number_of_initial_queries |-> DefaultNumberOfInitialQueries,
     max_research_loops |-> DefaultMaxResearchLoops]

(* name.upper() *)
upper ==
    [query_generator_model |-> "QUERY_GENERATOR_MODEL",
     reflection_model |-> "REFLECTION_MODEL",
     answer_model |-> "ANSWER_MODEL",
     number_of_initial_queries |-> "NUMBER_OF_INITIAL_QUERIES",
     max_research_loops |-> "MAX_RESEARCH_LOOPS"]

(* the value of an environment variable as the model validation of         *)
(* Configuration takes it: the numeral of an int field is converted        *)
validate(name, s) == IF name \in IntFields THEN int(s) ELSE s

(* a configuration in which the entry of config["configurable"] comes      *)
(* before the environment variable                                         *)
from_runnable_config_config_first(config) ==
    LET configurable ==
            IF config # None /\ config[1] # EmptyDict
                  /\ "configurable" \in DOMAIN config[1]
            THEN config[1].configurable ELSE EmptyDict
        raw_values ==
            [name \in model_fields |->
                IF name \in DOMAIN configurable /\ configurable[name] # None
                THEN configurable[name]
                ELSE IF upper[name] \in DOMAIN environ
                     THEN Some(validate(name, environ[upper[name]]))
                     ELSE None]
        values == {name \in model_fields : raw_values[name] # None}
    IN [name \in model_fields |->
           IF name \in values THEN raw_values[name][1] ELSE Defaults[name]]

(* from_runnable_config: the environment variable if set, else the entry   *)
(* of config["configurable"] if it is not None, else the default           *)
from_runnable_config(config) ==
    LET configurable ==
            IF config # None /\ config[1] # EmptyDict
                  /\ "configurable" \in DOMAIN config[1]
            THEN config[1].configurable ELSE EmptyDict
        raw_values ==
            [name \in model_fields |->
                IF upper[name] \in DOMAIN environ
                THEN Some(validate(name, environ[upper[name]]))
                ELSE IF name \in DOMAIN configurable
                     THEN configurable[name] ELSE None]
        values == {name \in model_fields : raw_values[name] # None}
    IN [name \in model_fields |->
           IF name \in values THEN raw_values[name][1] ELSE Defaults[name]]

(* the config the nodes of a run get when ainvoke is called without one *)
RunConfig == Some([configurable |-> EmptyDict])

(* the environments of the process: MAX_RESEARCH_LOOPS unset or set *)
Environs ==
    {EmptyDict} \cup {("MAX_RESEARCH_LOOPS" :> str(k)) : k \in 0..MaxLoops}

(* the max_research_loops a caller puts in the initial state, if any *)
SuppliedLoops == {None, Some(0)}

----------------------------------------------------------------------------
(* research(): the initial state handed to graph.ainvoke *)

initial_state(count, maxLoops) ==
    [messages |-> <<HumanMessage(<<Word(Question)>>)>>,
     search_query |-> <<>>,
     web_research_result |-> <<>>,
     sources_gathered |-> <<>>,
     initial_search_query_count |-> count,
     max_research_loops |-> maxLoops,
     research_loop_count |-> 0,
     reasoning_model |-> "gemini-2.0-flash-exp",
     \* channels of ReflectionState, not yet written
     is_sufficient |-> FALSE,
     knowledge_gap |-> "",
     follow_up_queries |-> <<>>,
     number_of_ran_queries |-> 0]

hist0 ==
    [results |-> <<>>,       \* the Reflection results, one per execution of reflection
     finalizes |-> 0,        \* executions of finalize_answer
     fanouts |-> <<>>,       \* the routing decisions that fanned out, with their Sends
     last |-> "START",       \* the node that executed last
     failed |-> "",          \* the node whose collaborator call raised
     returned |-> 0,         \* web_research branches that returned
     read |-> <<>>,          \* web_research_result as the last reflection read it
     generated |-> <<>>,     \* the text the answer model returned, before replacement
     completed |-> <<>>,     \* the branches of the batch that returned, in completion order
     resolver0 |-> [counter |-> 0, keys |-> <<>>]]
                             \* the resolver when the batch was scheduled

(* the caller supplies max_research_loops and initial_search_query_count   *)
(* (research(), the command line) or leaves them out (the graph invoked    *)
(* with the messages only)                                                 *)
Init ==
    /\ pc = "generate_query"
    /\ \E maxLoops \in SuppliedLoops :
            state = initial_state(IF maxLoops = None THEN None
                                  ELSE Some(InitialSearchQueryCount),
                                  maxLoops)
    /\ environ \in Environs
    /\ suspended = None
    /\ tasks = <<>>
    /\ resolver = [counter |-> 0, keys |-> <<>>]
    /\ response = NoResponse
    /\ hist = hist0

----------------------------------------------------------------------------
(* Source resolver and citations (search_agent.utils)                      *)

(* a resolver whose keys are made of the branch id alone *)
RECURSIVE resolve_urls_branch_only(_, _, _)
resolve_urls_branch_only(urls, id, r) ==
    IF urls = <<>> THEN r
    ELSE LET u == Head(urls) IN
         IF u \in DOMAIN r.keys
         THEN resolve_urls_branch_only(Tail(urls), id, r)
         ELSE resolve_urls_branch_only(Tail(urls), id,
                  [counter |-> r.counter + 1,
                   keys |-> [v \in DOMAIN r.keys \cup {u} |->
                               IF v = u THEN ShortUrl(id, 0)
                               ELSE r.keys[v]]])

(* a resolver that gives a url a new key at every resolution *)
RECURSIVE resolve_urls_always_new(_, _, _)
resolve_urls_always_new(urls, id, r) ==
    IF urls = <<>> THEN r
    ELSE LET u == Head(urls) IN
         resolve_urls_always_new(Tail(urls), id,
             [counter |-> r.counter + 1,
              keys |-> [v \in DOMAIN r.keys \cup {u} |->
                          IF v = u THEN ShortUrl(id, r.counter)
                          ELSE r.keys[v]]])

(* resolve_urls: every url not yet resolved in the run gets the key made   *)
(* of the branch id and the run-scoped counter; a url resolved before      *)
(* keeps its key.  Returns the resolver after the call.                    *)
RECURSIVE resolve_urls(_, _, _)
resolve_urls(urls, id, r) ==
    IF urls = <<>> THEN r
    ELSE LET u == Head(urls) IN
         IF u \in DOMAIN r.keys
         THEN resolve_urls(Tail(urls), id, r)
         ELSE resolve_urls(Tail(urls), id,
                  [counter |-> r.counter + 1,
                   keys |-> [v \in DOMAIN r.keys \cup {u} |->
                               IF v = u THEN ShortUrl(id, r.counter)
                               ELSE r.keys[v]]])

(* get_citations: one citation per grounding chunk, with one segment; the  *)
(* response text of a branch is one word and every chunk supports it       *)
get_citations(chunks, keys) ==
    [i \in DOMAIN chunks |->
        [start_index |-> 0,
         end_index |-> 1,
         segments |-> <<[label |-> chunks[i],
                         short_url |-> keys[chunks[i]],
                         value |-> chunks[i]]>>]]

(* the marker of a citation: the keys of its segments *)
marker_to_insert(citation) ==
    [i \in DOMAIN citation.segments |-> citation.segments[i].short_url]

(* the citations in the order given, unsorted *)
unsorted_citations(citations) == citations

(* the citations by descending end_index; equal ends keep their order *)
RECURSIVE sorted_citations(_)
sorted_citations(citations) ==
    IF citations = <<>> THEN <<>>
    ELSE LET m == CHOOSE i \in DOMAIN citations :
                     \A j \in DOMAIN citations :
                         \/ citations[j].end_index < citations[i].end_index
                         \/ /\ citations[j].end_index = citations[i].end_index
                            /\ j >= i
         IN <<citations[m]>> \o
            sorted_citations(SubSeq(citations, 1, m - 1) \o
                             SubSeq(citations, m + 1, Len(citations)))

(* one insertion: the marker of the citation at its end offset *)
insert_marker(text, citation) ==
    SubSeq(text, 1, citation.end_index) \o marker_to_insert(citation) \o
        SubSeq(text, citation.end_index + 1, Len(text))

RECURSIVE insert_markers(_, _)
insert_markers(text, citations) ==
    IF citations = <<>> THEN text
    ELSE insert_markers(insert_marker(text, Head(citations)),
                        Tail(citations))

(* insert_citation_markers: the response text with the marker of every     *)
(* citation inserted at its end offset, by descending end offset           *)
insert_citation_markers(text, citations) ==
    insert_markers(text, sorted_citations(citations))

----------------------------------------------------------------------------
(* Nodes of the graph (graph.py) *)

(* the in-place assignment of generate_query on the state it was called   *)
(* with: the node's own dict, read from the channels for that call         *)
generate_query_in_place(st, configurable) ==
    [st EXCEPT !.initial_search_query_count =
        IF @ = None THEN Some(configurable.number_of_initial_queries) ELSE @]

(* generate_query: the update it returns, given the list the LLM produced *)
generate_query(result) == [search_query |-> result]

(* a fan-out that sends the first generated query only *)
continue_to_web_research_first_only(st) ==
    [i \in DOMAIN st.search_query \cap {1} |->
        Send(st.search_query[i], i - 1)]

(* continue_to_web_research: one Send per query, ids 0, 1, ... *)
continue_to_web_research(st) ==
    [i \in DOMAIN st.search_query |-> Send(st.search_query[i], i - 1)]

(* web_research: the partial update of one branch, given the grounding     *)
(* chunks of its search response and the resolver after resolve_urls       *)
web_research(task, chunks, r) ==
    LET citations == get_citations(chunks, r.keys)
        modified_text ==
            insert_citation_markers(<<Word(task.search_query)>>, citations)
    IN [sources_gathered |->
            Flatten([i \in DOMAIN citations |-> citations[i].segments]),
        search_query |-> <<task.search_query>>,
        web_research_result |-> <<modified_text>>]

(* reflection that counts no query as run, so that follow-up ids restart *)
reflection_restart_ids(st, is_sufficient, follow_up_queries) ==
    [is_sufficient |-> is_sufficient,
     knowledge_gap |-> "gap",
     follow_up_queries |-> follow_up_queries,
     research_loop_count |-> st.research_loop_count + 1,
     number_of_ran_queries |-> 0]

(* reflection returning the count it read, without the increment *)
reflection_no_increment(st, is_sufficient, follow_up_queries) ==
    [is_sufficient |-> is_sufficient,
     knowledge_gap |-> "gap",
     follow_up_queries |-> follow_up_queries,
     research_loop_count |-> st.research_loop_count,
     number_of_ran_queries |-> Len(st.search_query)]

(* reflection incrementing the count twice, in place and in the update *)
reflection_double_increment(st, is_sufficient, follow_up_queries) ==
    [is_sufficient |-> is_sufficient,
     knowledge_gap |-> "gap",
     follow_up_queries |-> follow_up_queries,
     research_loop_count |-> st.research_loop_count + 2,
     number_of_ran_queries |-> Len(st.search_query)]

(* reflection returning the state it was called with, with its results *)
reflection_returns_state(st, is_sufficient, follow_up_queries) ==
    [k \in DOMAIN st |->
        CASE k = "is_sufficient" -> is_sufficient
          [] k = "knowledge_gap" -> "gap"
          [] k = "follow_up_queries" -> follow_up_queries
          [] k = "research_loop_count" -> st.research_loop_count + 1
          [] k = "number_of_ran_queries" -> Len(st.search_query)
          [] OTHER -> st[k]]

(* the in-place assignment of reflection on the state it was called with *)
reflection_in_place(st) ==
    [st EXCEPT !.research_loop_count = @ + 1]

(* reflection: the update it returns, given the LLM's Reflection result;   *)
(* the count it returns is the one it assigned in place                    *)
reflection(st, is_sufficient, follow_up_queries) ==
    [is_sufficient |-> is_sufficient,
     knowledge_gap |-> "gap",
     follow_up_queries |-> follow_up_queries,
     research_loop_count |-> reflection_in_place(st).research_loop_count,
     number_of_ran_queries |-> Len(st.search_query)]

(* the channels of ReflectionState, the input schema of evaluate_research  *)
ReflectionState ==
    {"is_sufficient", "knowledge_gap", "follow_up_queries",
     "research_loop_count", "number_of_ran_queries"}

(* the state a routing function is called with: the channels of the        *)
(* schema its first parameter is annotated with                            *)
read(st, schema) == [k \in schema |-> st[k]]

(* the loop bound evaluate_research uses: state.get("max_research_loops")  *)
(* if it is not None, else the configured one                              *)
max_research_loops(st, configurable) ==
    IF "max_research_loops" \in DOMAIN st /\ st.max_research_loops # None
    THEN st.max_research_loops[1]
    ELSE configurable.max_research_loops

(* evaluate_research comparing with > instead of >= *)
evaluate_research_late(st, config) ==
    IF st.is_sufficient
         \/ st.research_loop_count >
               max_research_loops(st, from_runnable_config(config))
    THEN [goto |-> "finalize_answer", sends |-> <<>>]
    ELSE [goto |-> "web_research",
          sends |-> [i \in DOMAIN st.follow_up_queries |->
                        Send(st.follow_up_queries[i],
                             st.number_of_ran_queries + (i - 1))]]

(* evaluate_research: "finalize_answer" or the list of Sends *)
evaluate_research(st, config) ==
    IF st.is_sufficient
         \/ st.research_loop_count >=
               max_research_loops(st, from_runnable_config(config))
    THEN [goto |-> "finalize_answer", sends |-> <<>>]
    ELSE [goto |-> "web_research",
          sends |-> [i \in DOMAIN st.follow_up_queries |->
                        Send(st.follow_up_queries[i],
                             st.number_of_ran_queries + (i - 1))]]

(* str.replace(short_url, value) on a text *)
replace(content, short_url, value) ==
    [i \in DOMAIN content |->
        IF content[i] = short_url THEN LongUrl(value) ELSE content[i]]

(* the loop of finalize_answer over state["sources_gathered"] *)
RECURSIVE finalize_sources(_, _, _)
finalize_sources(sources, content, unique_sources) ==
    IF sources = <<>>
    THEN [content |-> content, unique_sources |-> unique_sources]
    ELSE LET source == Head(sources) IN
         IF source.short_url \in Range(content)
         THEN finalize_sources(Tail(sources),
                  replace(content, source.short_url, source.value),
                  Append(unique_sources, source))
         ELSE finalize_sources(Tail(sources), content, unique_sources)

(* finalize_answer: the update it returns, given the LLM's answer text *)
finalize_answer(st, content) ==
    LET r == finalize_sources(st.sources_gathered, content, <<>>)
    IN [messages |-> <<AIMessage(r.content)>>,
        sources_gathered |-> r.unique_sources]

----------------------------------------------------------------------------
(* State merge layer: the reducers of the channels (state.py) *)

(* the channels when web_research_result has no reducer: a write replaces  *)
(* the list                                                                *)
AppendChannels_without_results ==
    {"messages", "search_query", "sources_gathered", "follow_up_queries"}

(* channels annotated with operator.add or add_messages *)
AppendChannels ==
    {"messages", "search_query", "web_research_result", "sources_gathered",
     "follow_up_queries"}

(* apply one node's update to the channels *)
apply_writes(st, update) ==
    [k \in DOMAIN st |->
        IF k \in DOMAIN update
        THEN IF k \in AppendChannels THEN st[k] \o update[k] ELSE update[k]
        ELSE st[k]]

(* apply the updates of all tasks of a superstep, in task order *)
RECURSIVE apply_batch(_, _)
apply_batch(st, ts) ==
    IF ts = <<>> THEN st
    ELSE apply_batch(apply_writes(st, Head(ts).update), Tail(ts))

----------------------------------------------------------------------------
(* research() of app.py: the response built from the result of the graph *)

(* the channels of OverallState: the output of graph.ainvoke *)
OutputChannels ==
    {"messages", "search_query", "web_research_result", "sources_gathered",
     "initial_search_query_count", "max_research_loops",
     "research_loop_count", "reasoning_model"}

Output(st) == [k \in OutputChannels |-> st[k]]

ResearchResponse(result) ==
    [success |-> TRUE,
     message |-> "Research completed successfully",
     answer |-> IF result.messages # <<>>
                THEN Some(result.messages[Len(result.messages)].content)
                ELSE None,
     sources |-> result.sources_gathered,
     research_loops |-> result.research_loop_count,
     full_result |-> result]

FailureResponse(e) ==
    [success |-> FALSE,
     message |-> "Research failed",
     error |-> e]

----------------------------------------------------------------------------
(* The run.  Each action is one task of the graph together with what the   *)
(* executor does when it returns: the routing function attached to the     *)
(* node, the application of the writes when the superstep is complete,     *)
(* and, when no task is scheduled next, the return of graph.ainvoke to     *)
(* research(), which builds the response.                                  *)

(* what the answer model may write: words and short urls it has seen *)
AnswerTexts(st) ==
    LET seen == {Word("answer")} \cup
                {st.sources_gathered[i].short_url :
                    i \in DOMAIN st.sources_gathered}
    IN UNION {[1..k -> seen] : k \in 1..MaxAnswerLen}

Pending == {i \in DOMAIN tasks : tasks[i].status = "pending"}

(* a superstep taken as complete as soon as one task has returned *)
superstep_complete_any(ts) == \E j \in DOMAIN ts : ts[j].status = "done"

(* the superstep is complete when every task of it has returned *)
superstep_complete(ts) == \A j \in DOMAIN ts : ts[j].status = "done"

(* an abort that applies the writes of the tasks that had returned *)
Abort_merging(node) ==
    /\ pc' = "failed"
    /\ tasks' = <<>>
    /\ response' = FailureResponse("CollaboratorError")
    /\ hist' = [hist EXCEPT !.failed = node]
    /\ state' = apply_batch(state, tasks)
    /\ UNCHANGED <<resolver, environ, suspended>>

(* the collaborator call of a step raises: ainvoke raises, research()      *)
(* catches the exception; the writes of the step are not applied           *)
Abort(node) ==
    /\ pc' = "failed"
    /\ tasks' = <<>>
    /\ response' = FailureResponse("CollaboratorError")
    /\ hist' = [hist EXCEPT !.failed = node]
    /\ UNCHANGED <<state, resolver, environ, suspended>>

(* the executor after a node: schedule the sends, or go to the named node, *)
(* or stop when nothing is scheduled                                       *)
Schedule(st, route) ==
    /\ state' = st
    /\ tasks' = route.sends
    /\ pc' = IF route.goto = "finalize_answer" THEN "finalize_answer"
             ELSE IF route.sends = <<>> THEN "done"
             ELSE "web_research"
    /\ response' = IF route.goto = "web_research" /\ route.sends = <<>>
                   THEN ResearchResponse(Output(state')) ELSE response

GenerateQuery ==
    /\ pc = "generate_query"
    /\ \E result \in QueryLists :
         LET st == apply_writes(state, generate_query(result))
             route == [goto |-> "web_research",
                       sends |-> continue_to_web_research(st)]
         IN /\ Schedule(st, route)
            /\ hist' = [hist EXCEPT
                          !.last = "generate_query",
                          !.completed = <<>>,
                          !.resolver0 = resolver,
                          !.fanouts = Append(@, [origin |-> "generate_query",
                                                 sends |-> route.sends])]
    /\ UNCHANGED <<resolver, environ, suspended>>

GenerateQueryFails ==
    /\ pc = "generate_query"
    /\ Abort("generate_query")

(* branch i of the batch returns; the last one to return completes the     *)
(* superstep: the updates of the batch are applied and reflection is next  *)
WebResearch(i) ==
    /\ pc = "web_research"
    /\ i \in Pending
    /\ \E chunks \in ChunkLists :
         LET r == resolve_urls(chunks, tasks[i].id, resolver)
             done == [tasks EXCEPT
                        ![i].status = "done",
                        ![i].update = web_research(tasks[i], chunks, r)]
         IN /\ resolver' = r
            /\ IF superstep_complete(done)
               THEN /\ state' = apply_batch(state, done)
                    /\ tasks' = <<>>
                    /\ pc' = "reflection"
               ELSE /\ tasks' = done
                    /\ UNCHANGED <<state, pc>>
            /\ hist' = [hist EXCEPT
                          !.last = "web_research",
                          !.returned = @ + 1,
                          !.completed = Append(@, [task |-> i,
                                                   chunks |-> chunks])]
    /\ UNCHANGED <<response, environ, suspended>>

WebResearchFails(i) ==
    /\ pc = "web_research"
    /\ i \in Pending
    /\ Abort("web_research")

Reflection ==
    /\ pc = "reflection"
    /\ \E is_sufficient \in BOOLEAN,
          follow_up_queries \in FollowUpLists :
         LET st == apply_writes(state,
                       reflection(state, is_sufficient, follow_up_queries))
             route == evaluate_research(read(st, ReflectionState), RunConfig)
         IN /\ Schedule(st, route)
            /\ hist' = [hist EXCEPT
                          !.last = "reflection",
                          !.completed = <<>>,
                          !.resolver0 = resolver,
                          !.results = Append(@,
                              [is_sufficient |-> is_sufficient,
                               follow_up_queries |-> follow_up_queries]),
                          !.read = state.web_research_result,
                          !.fanouts =
                              IF route.goto = "web_research"
                              THEN Append(@, [origin |-> "reflection",
                                              sends |-> route.sends])
                              ELSE @]
    /\ UNCHANGED <<resolver, environ, suspended>>

ReflectionFails ==
    /\ pc = "reflection"
    /\ Abort("reflection")

FinalizeAnswer ==
    /\ pc = "finalize_answer"
    /\ \E content \in AnswerTexts(state) :
         LET st == apply_writes(state, finalize_answer(state, content))
         IN /\ state' = st
            /\ response' = ResearchResponse(Output(state'))
            /\ hist' = [hist EXCEPT
                          !.last = "finalize_answer",
                          !.finalizes = @ + 1,
                          !.generated = content]
    /\ pc' = "done"
    /\ UNCHANGED <<tasks, resolver, environ, suspended>>

FinalizeAnswerFails ==
    /\ pc = "finalize_answer"
    /\ Abort("finalize_answer")

Next ==
    \/ GenerateQuery
    \/ GenerateQueryFails
    \/ \E i \in DOMAIN tasks : WebResearch(i)
    \/ \E i \in DOMAIN tasks : WebResearchFails(i)
    \/ Reflection
    \/ ReflectionFails
    \/ FinalizeAnswer
    \/ FinalizeAnswerFails

Spec == Init /\ [][Next]_vars

(* The run when no collaborator call raises, under the scheduling of the   *)
(* event loop: a task that can run does run, and a call that does not fail *)
(* returns.                                                                *)
NextNoFailure ==
    \/ GenerateQuery
    \/ \E i \in DOMAIN tasks : WebResearch(i)
    \/ Reflection
    \/ FinalizeAnswer

SpecNoFailure ==
    Init /\ [][NextNoFailure]_vars /\ WF_vars(NextNoFailure)

----------------------------------------------------------------------------
(* Observations used by the properties *)

(* executions of reflection so far *)
Reflections == Len(hist.results)

(* the fan-outs that scheduled at least one branch *)
Batches == SelectSeq(hist.fanouts, LAMBDA f : f.sends # <<>>)

(* the loop bound of the run *)
LoopBound ==
    IF state.max_research_loops # None THEN state.max_research_loops[1]
    ELSE from_runnable_config(RunConfig).max_research_loops

(* the loop bound the routing function compares with *)
RoutingBound ==
    max_research_loops(read(state, ReflectionState),
                       from_runnable_config(RunConfig))

(* the result of the reflection that executed last *)
LastResult == hist.results[Len(hist.results)]

(* the fan-out decided last *)
LastFanout == hist.fanouts[Len(hist.fanouts)]

(* the state right after a reflection step and its routing decision *)
AfterReflection == hist.last = "reflection" /\ pc # "failed"

(* all Sends of the run, in order *)
AllSends == Flatten([i \in DOMAIN hist.fanouts |-> hist.fanouts[i].sends])

----------------------------------------------------------------------------
(* C1: after every reflection step the routing decision goes to            *)
(* finalize_answer if and only if is_sufficient is true or                 *)
(* research_loop_count >= max loops; in every other case it fans out       *)
(* exactly one web_research branch per follow-up query of that reflection  *)
(* and starts no finalize_answer; once a reflection has reported           *)
(* sufficient, no web_research branch is in flight any more.               *)
C1_RoutingAfterReflection ==
    /\ AfterReflection =>
         /\ (pc = "finalize_answer") <=>
               (LastResult.is_sufficient
                  \/ state.research_loop_count >= LoopBound)
         /\ pc # "finalize_answer" =>
               /\ hist.finalizes = 0
               /\ Len(tasks) = Len(LastResult.follow_up_queries)
               /\ \A i \in DOMAIN tasks :
                     tasks[i].search_query = LastResult.follow_up_queries[i]
    /\ (\E k \in DOMAIN hist.results : hist.results[k].is_sufficient) =>
         Pending = {}

(* node executions so far *)
Steps ==
    (IF hist.last = "START" THEN 0 ELSE 1)
       + hist.returned + Reflections + hist.finalizes

(* C2: a run in which no collaborator call fails stops, after at most      *)
(* max(1, maxLoops) executions of reflection and at most that many         *)
(* web-research batches: the executions are bounded, every step is one     *)
(* more execution, and until the run has stopped a step can be taken, so   *)
(* there is no infinite generate/research/reflect cycle.                   *)
C2_Termination ==
    /\ [](/\ Reflections <= Max(1, LoopBound)
          /\ Len(Batches) <= Max(1, LoopBound)
          /\ hist.returned <= Len(AllSends)
          /\ hist.finalizes <= 1)
    /\ [](pc = "done" \/ ENABLED NextNoFailure)
    /\ [][Steps' = Steps + 1]_vars

(* C2, as a property of the fair behaviours: the run reaches its end *)
C2_EventuallyDone == <>(pc = "done")

(* a run that used its whole loop bound and stopped *)
C2_Witness ==
    pc = "done" /\ LoopBound >= 2 /\ Reflections = LoopBound
       /\ Len(Batches) = LoopBound

(* C3: in every run that ends without an error, finalize_answer has        *)
(* executed exactly once and was the last step executed.                   *)
C3_EndOnlyFromFinalize ==
    pc = "done" => hist.finalizes = 1 /\ hist.last = "finalize_answer"

(* C4: a fan-out of degree 0 (from generate_query, or from a reflection    *)
(* that is insufficient and below the loop bound) changes nothing and the  *)
(* run proceeds to the next routing decision instead of stopping.          *)
C4_ZeroFanOutProceeds ==
    (hist.fanouts # <<>> /\ LastFanout.sends = <<>>
       /\ hist.last = LastFanout.origin /\ pc # "failed")
    => pc \in {"reflection", "finalize_answer"}

C6_ZeroLoopsFinalizes ==
    (pc = "done" /\ state.max_research_loops = Some(0)) =>
        /\ hist.finalizes = 1
        /\ \A k \in DOMAIN hist.fanouts :
              hist.fanouts[k].origin = "generate_query"

(* C7: if generate_query returned at least one query and every reflection  *)
(* returns sufficient = false with at least one follow-up query, then for  *)
(* maxLoops = K >= 1 the run executes exactly K reflections and exactly K  *)
(* web-research batches, each later batch of the size of the follow-up     *)
(* list of the preceding reflection, then finalize_answer, and completes   *)
(* with an answer and no error.                                            *)
C7_ExhaustedRun ==
    (/\ pc = "done"
     /\ LoopBound >= 1
     /\ hist.fanouts[1].sends # <<>>
     /\ \A k \in DOMAIN hist.results :
           /\ ~hist.results[k].is_sufficient
           /\ hist.results[k].follow_up_queries # <<>>)
    => /\ Reflections = LoopBound
       /\ Len(Batches) = LoopBound
       /\ \A k \in 2..Len(Batches) :
             Len(Batches[k].sends) =
                Len(hist.results[k - 1].follow_up_queries)
       /\ hist.finalizes = 1
       /\ response.success

(* C8: research_loop_count is incremented by exactly 1 per execution of    *)
(* reflection and never decremented; reflection executes exactly once      *)
(* after each completed web-research batch, whatever the number of         *)
(* branches; so research_loop_count is the number of reflections so far,   *)
(* and the research_loops returned is the number of reflections executed.  *)
C8_LoopCountCountsReflections ==
    /\ [](/\ state.research_loop_count = Reflections
          /\ pc \in {"web_research", "reflection"} =>
                Reflections = Len(Batches) - 1
          /\ pc \in {"finalize_answer", "done"} =>
                Reflections = Len(Batches)
          /\ pc = "done" => response.research_loops = Reflections)
    /\ [][/\ state'.research_loop_count >= state.research_loop_count
          /\ state'.research_loop_count - state.research_loop_count =
                Len(hist'.results) - Len(hist.results)]_vars

(* two reflections in a completed run whose first batch had two branches *)
C8_Witness ==
    pc = "done" /\ Reflections = 2 /\ Len(Batches[1].sends) = 2
       /\ response.research_loops = 2

(* the Sends of the batches that were complete when reflection k ran *)
SendsBefore(k) ==
    Flatten([i \in 1..k |-> Batches[i].sends])

(* C9: reflection, and any later step, starts only after every             *)
(* web_research branch of the batch before it has returned and its update  *)
(* has been merged: the web_research_result a reflection reads holds the   *)
(* result of every branch of every batch before it.                        *)
C9_FullJoin ==
    /\ pc \in {"reflection", "finalize_answer"} =>
          LET sends == AllSends
          IN /\ Pending = {}
             /\ Len(state.web_research_result) = Len(sends)
             /\ \A k \in DOMAIN sends :
                   Head(state.web_research_result[k]) =
                      Word(sends[k].search_query)
    /\ Reflections >= 1 =>
          LET before == SendsBefore(Reflections)
          IN /\ Len(hist.read) = Len(before)
             /\ \A k \in DOMAIN hist.read :
                   Head(hist.read[k]) = Word(before[k].search_query)

(* reflection about to run after a batch of two branches *)
C9_Witness ==
    pc = "reflection" /\ Len(LastFanout.sends) >= 2
       /\ hist.returned = Len(AllSends)

(* C10: if a web_research branch of a batch fails, the run is aborted: no  *)
(* update of any branch of that batch is merged into the run state, no     *)
(* later step executes, and the failure returned to the caller carries no  *)
(* research results.                                                       *)
C10_BranchFailureAborts ==
    /\ []((pc = "failed" /\ hist.failed = "web_research") =>
            /\ state.web_research_result = hist.read
            /\ Len(state.web_research_result) =
                  Len(AllSends) - Len(LastFanout.sends)
            /\ Len(state.search_query) =
                  Len(hist.fanouts[1].sends) + Len(state.web_research_result)
            /\ Reflections = Len(Batches) - 1
            /\ hist.finalizes = 0
            /\ ~response.success
            /\ DOMAIN response = {"success", "message", "error"})
    /\ [][/\ (pc = "web_research" /\ pc' = "failed") => state' = state
          /\ pc = "failed" => UNCHANGED vars]_vars

(* a branch failed after another branch of its batch had returned *)
C10_Witness ==
    pc = "failed" /\ hist.failed = "web_research"
       /\ Len(LastFanout.sends) >= 2
       /\ hist.returned > Len(state.web_research_result)

(* the steps of the run that call a language model with a schema or for    *)
(* the final text                                                          *)
SequentialSteps == {"generate_query", "reflection", "finalize_answer"}

(* C11: a failure in generate_query, reflection or finalize_answer aborts  *)
(* the run, and the response given to the caller is a failure that names   *)
(* the step that failed and the underlying cause.                          *)
C11_FailureIdentifiesStep ==
    (pc = "failed" /\ hist.failed \in SequentialSteps) =>
        /\ ~response.success
        /\ tasks = <<>>
        /\ response.error = "CollaboratorError"
        /\ "step" \in DOMAIN response
        /\ response.step = hist.failed

(* C12: a response with success = true carries the content of the          *)
(* assistant message that finalize_answer produced in the run: the answer  *)
(* is not null and is not the content of the user's question.              *)
C12_AnswerIsFinalAnswer ==
    response.success =>
        /\ hist.finalizes = 1
        /\ response.answer # None
        /\ response.answer # Some(state.messages[1].content)
        /\ state.messages[Len(state.messages)].role = "ai"
        /\ response.answer =
              Some(state.messages[Len(state.messages)].content)

(* a run that ended through finalize_answer *)
Completed == pc = "done" /\ hist.finalizes = 1

(* the short keys that occur in the text the answer model returned *)
CitedKeys ==
    {t \in Range(hist.generated) : t.kind = "short"}

(* C13: after a completed run the returned sources_gathered holds only     *)
(* sources whose short key occurred in the generated final text, and the   *)
(* long URL of every returned entry occurs in the final answer text.       *)
C13_ReturnedSourcesAreCited ==
    Completed =>
        \A i \in DOMAIN response.sources :
            /\ response.sources[i].short_url \in CitedKeys
            /\ LongUrl(response.sources[i].value)
                   \in Range(response.answer[1])

(* C14: after a completed run every short key that occurs in the generated *)
(* final text has exactly one entry in the returned sources_gathered.      *)
C14_CitedKeyHasOneEntry ==
    Completed =>
        \A k \in CitedKeys :
            Cardinality({i \in DOMAIN response.sources :
                            response.sources[i].short_url = k}) = 1

(* the source segments produced so far by the branches of the run: the     *)
(* merged ones and those of the branches of the batch that have returned   *)
Segments ==
    Range(state.sources_gathered) \cup
    UNION {Range(tasks[i].update.sources_gathered) :
              i \in {j \in DOMAIN tasks : tasks[j].status = "done"}}

(* C15: within a run no two distinct long URLs have the same short key,    *)
(* whichever branches of whichever batches resolved them and in whichever  *)
(* order the branches returned.                                            *)
C15_ShortKeysUnique ==
    /\ \A u, v \in DOMAIN resolver.keys :
          resolver.keys[u] = resolver.keys[v] => u = v
    /\ \A s, t \in Segments : s.short_url = t.short_url => s.value = t.value

(* two distinct long URLs that got their keys in two different branches *)
C15_Witness ==
    \E u, v \in DOMAIN resolver.keys :
        /\ u # v
        /\ resolver.keys[u].id # resolver.keys[v].id
        /\ {resolver.keys[u], resolver.keys[v]} \subseteq
              {s.short_url : s \in Range(state.sources_gathered)}

(* C16: a long URL resolved again in the run, by the same or by another    *)
(* branch, gets the key of its first resolution: the key of a URL never    *)
(* changes and every segment carries the key of its URL.                   *)
C16_ResolutionIdempotent ==
    /\ [](\A s \in Segments :
             /\ s.value \in DOMAIN resolver.keys
             /\ s.short_url = resolver.keys[s.value])
    /\ [][\A u \in DOMAIN resolver.keys :
             /\ u \in DOMAIN resolver'.keys
             /\ resolver'.keys[u] = resolver.keys[u]]_vars

(* a long URL that two branches of one batch and a branch of a later       *)
(* batch have resolved                                                     *)
C16_Witness ==
    /\ Len(Batches) >= 2
    /\ \E u \in DOMAIN resolver.keys :
          Cardinality({i \in DOMAIN state.sources_gathered :
                          state.sources_gathered[i].value = u}) >= 3

(* the branches of the batch ts run one after the other in the order of    *)
(* completion `order`, each with the response it got, from the resolver r  *)
RECURSIVE run_branches(_, _, _)
run_branches(ts, order, r) ==
    IF order = <<>> THEN ts
    ELSE LET c == Head(order)
             r2 == resolve_urls(c.chunks, ts[c.task].id, r)
         IN run_branches(
                [ts EXCEPT ![c.task].status = "done",
                           ![c.task].update =
                               web_research(ts[c.task], c.chunks, r2)],
                Tail(order), r2)

(* the orders in which the branches of a batch of n may complete *)
Orders(n) ==
    {p \in [1..n -> 1..n] : \A i, j \in 1..n : p[i] = p[j] => i = j}

(* what the merge of the batch adds to the two result lists, as sets *)
MergedResults(ts) ==
    {ts[i].update.web_research_result[1] : i \in DOMAIN ts}

MergedSources(ts) ==
    UNION {Range(ts[i].update.sources_gathered) : i \in DOMAIN ts}

(* the state right after the merge of a batch *)
AfterMerge == pc = "reflection" /\ hist.last = "web_research"

(* C18: for the same batch and the same collaborator responses, every      *)
(* completion order of the branches gives the same set of                  *)
(* web_research_result entries and the same set of sources_gathered        *)
(* entries after the merge as the order the branches completed in.         *)
C18_MergeCommutes ==
    AfterMerge =>
        LET batch == LastFanout.sends
            n == Len(batch)
            actual == run_branches(batch, hist.completed, hist.resolver0)
        IN /\ SubSeq(state.web_research_result,
                     Len(state.web_research_result) - n + 1,
                     Len(state.web_research_result))
                 = [i \in 1..n |-> actual[i].update.web_research_result[1]]
           /\ \A p \in Orders(n) :
                 LET other == run_branches(batch,
                                  [i \in 1..n |-> hist.completed[p[i]]],
                                  hist.resolver0)
                 IN /\ MergedResults(other) = MergedResults(actual)
                    /\ MergedSources(other) = MergedSources(actual)

(* the ids of the branches of the run, in the order of their Sends *)
BranchIds == [i \in DOMAIN AllSends |-> AllSends[i].id]

(* C19: no two web_research branches of a run, of the same batch or of     *)
(* different batches, get the same id.                                     *)
C19_BranchIdsUnique ==
    LET ids == BranchIds
    IN \A i, j \in DOMAIN ids : ids[i] = ids[j] => i = j

(* three batches, one of them of two branches *)
C19_Witness ==
    /\ Len(Batches) >= 3
    /\ \E k \in DOMAIN Batches : Len(Batches[k].sends) >= 2
    /\ hist.returned = Len(AllSends)

(* C20: the ids of the branches of a run are the consecutive integers      *)
(* 0, 1, 2, ... in the order of the Sends, and number_of_ran_queries, as   *)
(* reflection writes it, is the number of branches run so far.             *)
C20_BranchIdsConsecutive ==
    /\ LET ids == BranchIds
       IN \A i \in DOMAIN ids : ids[i] = i - 1
    /\ AfterReflection => state.number_of_ran_queries = hist.returned

(* C21: the step after generate_query is always the fan-out: one           *)
(* web_research branch per generated query, the i-th branch with the i-th  *)
(* query text and the id i (counted from 0).                               *)
C21_FanOutPerQuery ==
    /\ []((hist.last # "START" /\ hist.failed # "generate_query") =>
            /\ Len(hist.fanouts) >= 1
            /\ hist.fanouts[1].origin = "generate_query")
    /\ [][(pc = "generate_query" /\ pc' # "failed") =>
            LET query == state'.search_query
            IN /\ tasks' = [i \in DOMAIN query |-> Send(query[i], i - 1)]
               /\ LastFanout' = [origin |-> "generate_query",
                                 sends |-> tasks']
               /\ pc' # "reflection" /\ pc' # "finalize_answer"]_vars

(* the fan-out of two generated queries *)
C21_Witness ==
    /\ hist.last = "generate_query"
    /\ Len(state.search_query) = 2
    /\ Len(tasks) = 2
    /\ pc = "web_research"

(* the list old is kept at the front of the list new *)
IsPrefix(old, new) ==
    /\ Len(old) <= Len(new)
    /\ SubSeq(new, 1, Len(old)) = old

(* C22: web_research_result is append-only and has one entry per branch    *)
(* that completed: when no batch is in flight its length is the number of  *)
(* branches run so far, and no step removes, reorders or changes an entry  *)
(* that is already merged.                                                 *)
C22_ResultsAppendOnly ==
    /\ [](pc \in {"reflection", "finalize_answer", "done"} =>
            Len(state.web_research_result) = hist.returned)
    /\ [][IsPrefix(state.web_research_result,
                   state'.web_research_result)]_vars

(* the second batch is merged behind the two results of the first *)
C22_Witness ==
    /\ AfterMerge
    /\ Len(Batches) = 2
    /\ Len(Batches[1].sends) = 2
    /\ Len(state.web_research_result) > 2

(* C23: after a run that ended without an error the messages are the       *)
(* caller's initial messages, unchanged, followed by exactly one assistant *)
(* message, whose content is the answer given to the caller.               *)
C23_ConversationAppendOnly ==
    pc = "done" =>
        /\ Len(state.messages) = 2
        /\ state.messages[1] = HumanMessage(<<Word(Question)>>)
        /\ state.messages[2].role = "ai"
        /\ response.answer = Some(state.messages[2].content)

(* C24: the loop bound the routing decision after reflection compares with *)
(* is the max_research_loops the caller supplied in the initial state      *)
(* whenever one was supplied, and the configured one only otherwise.       *)
C24_SuppliedLoopBoundUsed ==
    AfterReflection =>
        /\ RoutingBound = LoopBound
        /\ (state.max_research_loops # None /\ ~LastResult.is_sufficient) =>
              ((pc = "finalize_answer") <=>
                  state.research_loop_count >= state.max_research_loops[1])


----------------------------------------------------------------------------
(* Marker insertion with offsets (web_research, graph.py 137-142): the     *)
(* loop of insert_citation_markers, one citation per step, on every        *)
(* response text and every list of citations with valid offsets.           *)

Letters == <<"a", "b", "c", "d", "e", "f">>

(* the response texts: words, no marker *)
ResponseTexts == {[i \in 1..n |-> Word(Letters[i])] : n \in 1..MaxTextLen}

(* the spans with valid offsets in a text: 0 <= start < end <= len *)
ValidSpans(text) ==
    {sp \in [start_index : 0..Len(text), end_index : 0..Len(text)] :
        sp.start_index < sp.end_index}

(* the lists of citations of a text; the i-th citation has the i-th key *)
CitationLists(text) ==
    UNION {{[i \in 1..n |->
               [start_index |-> spans[i].start_index,
                end_index |-> spans[i].end_index,
                segments |-> <<[label |-> "u", short_url |-> ShortUrl(0, i),
                                value |-> "u"]>>]] :
            spans \in [1..n -> ValidSpans(text)]} : n \in 0..MaxCitations}

InitMarkers ==
    /\ pc = "insert_citation_markers"
    /\ \E text \in ResponseTexts : \E citations \in CitationLists(text) :
          state = [text |-> text,
                   citations |-> citations,
                   sorted_citations |-> sorted_citations(citations),
                   processed |-> <<>>,
                   modified_text |-> text]
    /\ environ = EmptyDict
    /\ suspended = None
    /\ tasks = <<>>
    /\ resolver = [counter |-> 0, keys |-> <<>>]
    /\ response = NoResponse
    /\ hist = hist0

(* one iteration of the loop: the next citation's marker is inserted *)
InsertMarker ==
    /\ pc = "insert_citation_markers"
    /\ state.sorted_citations # <<>>
    /\ state' = [state EXCEPT
          !.modified_text =
              insert_marker(@, Head(state.sorted_citations)),
          !.processed = Append(@, Head(state.sorted_citations)),
          !.sorted_citations = Tail(@)]
    /\ UNCHANGED <<pc, tasks, resolver, response, hist, environ, suspended>>

(* the loop is over: modified_text is returned *)
ReturnModifiedText ==
    /\ pc = "insert_citation_markers"
    /\ state.sorted_citations = <<>>
    /\ pc' = "done"
    /\ UNCHANGED <<state, tasks, resolver, response, hist, environ, suspended>>

NextMarkers == InsertMarker \/ ReturnModifiedText

SpecMarkers == InitMarkers /\ [][NextMarkers]_vars

(* a text with its markers removed *)
RECURSIVE remove_markers(_)
remove_markers(text) ==
    IF text = <<>> THEN <<>>
    ELSE IF Head(text).kind = "short" THEN remove_markers(Tail(text))
         ELSE <<Head(text)>> \o remove_markers(Tail(text))

(* the places of a token in a text *)
Places(text, tok) == {p \in DOMAIN text : text[p] = tok}

(* C25: insert_citation_markers processes the citations by descending end  *)
(* offset; no insertion shifts the text before the offset of a citation    *)
(* not yet processed, so every marker is inserted at its citation's        *)
(* offset in the original text; in the annotated text each citation's      *)
(* marker occurs once, right after the span it supports (only markers      *)
(* between the end of the span and the marker, the original text up to     *)
(* the end offset before it), and the annotated text without its markers   *)
(* is the original text.  It is what the loop computes step by step.       *)
C25_MarkersAfterSpans ==
    pc \in {"insert_citation_markers", "done"} =>
        LET text == state.text
            out == state.modified_text
        IN /\ \A i, j \in DOMAIN state.processed :
                  i < j => state.processed[i].end_index
                              >= state.processed[j].end_index
           /\ \A k \in DOMAIN state.sorted_citations :
                  LET e == state.sorted_citations[k].end_index
                  IN /\ SubSeq(out, 1, e) = SubSeq(text, 1, e)
                     /\ \A i \in DOMAIN state.processed :
                            state.processed[i].end_index >= e
           /\ \A k \in DOMAIN state.processed :
                  LET c == state.processed[k]
                      places == Places(out, marker_to_insert(c)[1])
                  IN /\ Cardinality(places) = 1
                     /\ \A p \in places :
                            remove_markers(SubSeq(out, 1, p)) =
                                SubSeq(text, 1, c.end_index)
           /\ remove_markers(out) = text
           /\ pc = "done" =>
                 /\ out = insert_citation_markers(text, state.citations)
                 /\ Len(state.processed) = Len(state.citations)

(* two citations given in ascending order of their end offsets, both       *)
(* markers inserted, the first one inside the text                         *)
C25_Witness ==
    /\ pc = "done"
    /\ "citations" \in DOMAIN state
    /\ Len(state.citations) = 2
    /\ state.citations[1].end_index < state.citations[2].end_index
    /\ state.citations[2].end_index < Len(state.text)
    /\ Len(state.modified_text) = Len(state.text) + 2


(* the channels a step of the run changed *)
Changed == {k \in DOMAIN state : state'[k] # state[k]}

(* the keys of the partial update of a web_research branch *)
WebResearchKeys == {"search_query", "web_research_result", "sources_gathered"}

C27_SiblingIndependence ==
    AfterMerge =>
        LET batch == LastFanout.sends
            n == Len(batch)
            actual == run_branches(batch, hist.completed, hist.resolver0)
        IN \A p \in Orders(n) : \A chunks \in [1..n -> ChunkLists] :
              LET completed == [k \in 1..n |->
                                   [task |-> hist.completed[p[k]].task,
                                    chunks |-> chunks[p[k]]]]
                  other == run_branches(batch, completed, hist.resolver0)
              IN \A k \in 1..n :
                    completed[k].chunks = hist.completed[p[k]].chunks =>
                        other[completed[k].task].update =
                            actual[completed[k].task].update


----------------------------------------------------------------------------
(* The global client (async_client.py): the calls of get_async_client and  *)
(* close_async_client by any caller, and the calls web_research makes on   *)
(* the instance the graph module took when it was imported.                *)

ApiKeys == {"key1", "key2"}

(* AsyncGoogleClient(api_key) *)
AsyncGoogleClient(api_key) == [api_key |-> api_key, closed |-> FALSE]

(* after the import of graph.py: async_client = get_async_client(key) *)
InitClient ==
    /\ pc = "serving"
    /\ \E api_key \in ApiKeys :
          state = [global_async_client |-> Some(1),
                   async_client |-> 1,
                   instances |-> <<AsyncGoogleClient(api_key)>>]
    /\ hist = <<>>
    /\ environ = EmptyDict
    /\ suspended = None
    /\ tasks = <<>>
    /\ resolver = [counter |-> 0, keys |-> <<>>]
    /\ response = NoResponse

(* a call, as the log keeps it: the global before and after, the number    *)
(* of instances before, and the instance returned or used                  *)
Call(op, api_key, instance, after) ==
    [op |-> op, api_key |-> api_key, instance |-> instance,
     before |-> state.global_async_client, after |-> after,
     created |-> Len(state.instances),
     closed |-> IF instance = 0 THEN FALSE
                ELSE state.instances[instance].closed]

GetAsyncClient(api_key) ==
    /\ pc = "serving"
    /\ Len(hist) < MaxClientCalls
    /\ IF state.global_async_client = None
       THEN /\ state' = [state EXCEPT
                  !.instances = Append(@, AsyncGoogleClient(api_key)),
                  !.global_async_client = Some(Len(state.instances) + 1)]
            /\ hist' = Append(hist,
                  [Call("get", api_key, 0, Some(Len(state.instances) + 1))
                      EXCEPT !.instance = Len(state.instances) + 1])
       ELSE /\ UNCHANGED state
            /\ hist' = Append(hist,
                  Call("get", api_key, state.global_async_client[1],
                       state.global_async_client))
    /\ UNCHANGED <<pc, tasks, resolver, response, environ, suspended>>

CloseAsyncClient ==
    /\ pc = "serving"
    /\ Len(hist) < MaxClientCalls
    /\ IF state.global_async_client # None
       THEN /\ state' = [state EXCEPT
                  !.instances[state.global_async_client[1]].closed = TRUE,
                  !.global_async_client = None]
            /\ hist' = Append(hist,
                  Call("close", "", state.global_async_client[1], None))
       ELSE /\ UNCHANGED state
            /\ hist' = Append(hist, Call("close", "", 0, None))
    /\ UNCHANGED <<pc, tasks, resolver, response, environ, suspended>>

(* web_research: await async_client.generate_content(...) *)
GenerateContent ==
    /\ pc = "serving"
    /\ Len(hist) < MaxClientCalls
    /\ hist' = Append(hist,
          Call("generate_content", "", state.async_client,
               state.global_async_client))
    /\ UNCHANGED <<pc, state, tasks, resolver, response, environ, suspended>>

NextClient ==
    \/ \E api_key \in ApiKeys : GetAsyncClient(api_key)
    \/ CloseAsyncClient
    \/ GenerateContent

SpecClient == InitClient /\ [][NextClient]_vars

(* the discipline of get and close: at most one instance is current, the   *)
(* gets between two closes return the same instance whatever the key, a    *)
(* close with no current instance changes nothing, the first get after a   *)
(* close creates a new instance                                            *)
GetCloseDiscipline ==
    /\ Cardinality({i \in DOMAIN state.instances :
                       ~state.instances[i].closed}) <= 1
    /\ state.global_async_client # None =>
          ~state.instances[state.global_async_client[1]].closed
    /\ \A i, j \in DOMAIN hist :
          (/\ i < j
           /\ hist[i].op = "get" /\ hist[j].op = "get"
           /\ \A k \in i..j : hist[k].op # "close")
          => hist[i].instance = hist[j].instance
    /\ \A i \in DOMAIN hist :
          /\ (hist[i].op = "close" /\ hist[i].before = None) =>
                 hist[i].after = None /\ hist[i].instance = 0
          /\ (hist[i].op = "get" /\ hist[i].before = None) =>
                 hist[i].instance = hist[i].created + 1

(* C28: the discipline of get and close holds under every sequence of      *)
(* calls, and no step of the graph uses a client instance after            *)
(* close_async_client closed it.                                           *)
C28_ClientLifecycle ==
    /\ GetCloseDiscipline
    /\ \A i \in DOMAIN hist :
          hist[i].op = "generate_content" => ~hist[i].closed


----------------------------------------------------------------------------
(* Two research requests served by one process (app.py, one event loop):   *)
(* each call of research() has its own initial_state and its own           *)
(* graph.ainvoke, whose channels, tasks and result are locals of that      *)
(* call; the graph, the global client and os.environ are shared.  The      *)
(* event loop runs one request at a time and switches at an await.         *)

(* the locals of the request that is running *)
Context ==
    [pc |-> pc, state |-> state, tasks |-> tasks, resolver |-> resolver,
     response |-> response, hist |-> hist]

(* the locals of a request that has not started *)
NewRequest(maxLoops) ==
    [pc |-> "generate_query",
     state |-> initial_state(IF maxLoops = None THEN None
                             ELSE Some(InitialSearchQueryCount), maxLoops),
     tasks |-> <<>>,
     resolver |-> [counter |-> 0, keys |-> <<>>],
     response |-> NoResponse,
     hist |-> hist0]

(* the environments of the process the two requests are followed in *)
ConcurrentEnvirons == {"MAX_RESEARCH_LOOPS" :> "1"}

InitConcurrent ==
    /\ \E maxLoops \in SuppliedLoops :
          LET request == NewRequest(maxLoops)
          IN /\ pc = request.pc
             /\ state = request.state
             /\ tasks = request.tasks
             /\ resolver = request.resolver
             /\ response = request.response
             /\ hist = request.hist
    /\ \E maxLoops \in SuppliedLoops :
          suspended = [context |-> NewRequest(maxLoops), switches |-> 0]
    /\ environ \in ConcurrentEnvirons

(* a switch that leaves the resolver's memory in place, as if it were      *)
(* memory of the process                                                   *)
Switch_shared_resolver ==
    /\ suspended.switches < MaxSwitches
    /\ suspended.context.pc \notin {"done", "failed"}
    /\ pc' = suspended.context.pc
    /\ state' = suspended.context.state
    /\ tasks' = suspended.context.tasks
    /\ response' = suspended.context.response
    /\ hist' = suspended.context.hist
    /\ suspended' = [context |-> Context, switches |-> suspended.switches + 1]
    /\ UNCHANGED <<resolver, environ>>

(* the event loop suspends the running request at an await (or at its end) *)
(* and resumes the other one, which has not finished                       *)
Switch ==
    /\ suspended.switches < MaxSwitches
    /\ suspended.context.pc \notin {"done", "failed"}
    /\ pc' = suspended.context.pc
    /\ state' = suspended.context.state
    /\ tasks' = suspended.context.tasks
    /\ resolver' = suspended.context.resolver
    /\ response' = suspended.context.response
    /\ hist' = suspended.context.hist
    /\ suspended' = [context |-> Context, switches |-> suspended.switches + 1]
    /\ UNCHANGED environ

(* the requests followed: at most one query per fan-out, as the requests   *)
(* of test_parallel_research ask for                                       *)
OneQueryRuns ==
    \A i \in DOMAIN hist.fanouts : Len(hist.fanouts[i].sends) <= 1

NextConcurrent ==
    \/ Next /\ OneQueryRuns'
    \/ Switch

SpecConcurrent == InitConcurrent /\ [][NextConcurrent]_vars


----------------------------------------------------------------------------
(* Configuration.from_runnable_config on every environment and every       *)
(* config (configuration.py 41-66)                                         *)

(* the value a field has in the environment when it is set there (a        *)
(* string; the numeral of an int field) and under "configurable" when it   *)
(* is given there, both different from the default                         *)
EnvValue ==
    [query_generator_model |-> "env-query-model",
     reflection_model |-> "env-reflection-model",
     answer_model |-> "env-answer-model",
     number_of_initial_queries |-> "1",
     max_research_loops |-> "1"]

ConfigValue ==
    [query_generator_model |-> "cfg-query-model",
     reflection_model |-> "cfg-reflection-model",
     answer_model |-> "cfg-answer-model",
     number_of_initial_queries |-> 5,
     max_research_loops |-> 4]

(* the field an environment variable is named after *)
field(key) == CHOOSE name \in model_fields : upper[name] = key

(* os.environ with the variables of any set of fields set *)
AllEnvirons ==
    {[key \in {upper[name] : name \in set} |-> EnvValue[field(key)]] :
        set \in SUBSET model_fields}

(* config["configurable"]: any set of fields present, any of them None *)
Configurables ==
    UNION {{[name \in present |->
                IF name \in none THEN None ELSE Some(ConfigValue[name])] :
            none \in SUBSET present} : present \in SUBSET model_fields}

(* no config, an empty config, a config without "configurable", a config   *)
(* with "configurable"                                                     *)
Configs ==
    {None, Some(EmptyDict), Some([recursion_limit |-> 25])}
        \cup {Some([configurable |-> c]) : c \in Configurables}

InitConfiguration ==
    /\ pc = "from_runnable_config"
    /\ environ \in AllEnvirons
    /\ \E config \in Configs : state = [config |-> config]
    /\ response = NoResponse
    /\ tasks = <<>>
    /\ resolver = [counter |-> 0, keys |-> <<>>]
    /\ hist = hist0
    /\ suspended = None

(* Configuration.from_runnable_config(config) returns *)
FromRunnableConfig ==
    /\ pc = "from_runnable_config"
    /\ response' = from_runnable_config(state.config)
    /\ pc' = "done"
    /\ UNCHANGED <<state, tasks, resolver, hist, environ, suspended>>

NextConfiguration == FromRunnableConfig

SpecConfiguration == InitConfiguration /\ [][NextConfiguration]_vars

(* the value under config["configurable"], None when there is no config,   *)
(* no "configurable" or no such entry                                      *)
Configured(config, name) ==
    IF config = None THEN None
    ELSE IF "configurable" \notin DOMAIN config[1] THEN None
    ELSE IF name \notin DOMAIN config[1].configurable THEN None
    ELSE config[1].configurable[name]

(* the value of a field set in the environment, as the field's type        *)
FromEnviron(name) ==
    IF name \in IntFields THEN int(environ[upper[name]])
    ELSE environ[upper[name]]

(* C30: from_runnable_config gives every setting the value of the          *)
(* environment variable named by the upper-cased field name if it is set,  *)
(* else the value under config["configurable"] if present and not None,    *)
(* else the default of the field; with no config, or a config without      *)
(* "configurable", the result is the defaults overridden by the            *)
(* environment.                                                            *)
C30_ConfigurationPrecedence ==
    (pc = "done" /\ "config" \in DOMAIN state) =>
        /\ DOMAIN response = model_fields
        /\ \A name \in model_fields :
              response[name] =
                  IF upper[name] \in DOMAIN environ THEN FromEnviron(name)
                  ELSE IF Configured(state.config, name) # None
                       THEN Configured(state.config, name)[1]
                       ELSE Defaults[name]
        /\ (\A name \in model_fields :
               Configured(state.config, name) = None) =>
              \A name \in model_fields :
                  response[name] =
                      IF upper[name] \in DOMAIN environ
                      THEN FromEnviron(name) ELSE Defaults[name]

(* all three sources decide a setting of one result: the environment sets  *)
(* max_research_loops over a configured value, the config gives            *)
(* answer_model, reflection_model is None in the config and takes the      *)
(* default                                                                 *)
C30_Witness ==
    /\ pc = "done"
    /\ "config" \in DOMAIN state
    /\ "MAX_RESEARCH_LOOPS" \in DOMAIN environ
    /\ Configured(state.config, "max_research_loops") = Some(4)
    /\ response.max_research_loops = 1
    /\ "ANSWER_MODEL" \notin DOMAIN environ
    /\ response.answer_model = "cfg-answer-model"
    /\ "REFLECTION_MODEL" \notin DOMAIN environ
    /\ Configured(state.config, "reflection_model") = None
    /\ "reflection_model" \in DOMAIN state.config[1].configurable
    /\ response.reflection_model = "gemini-2.5-flash"

====
